---- MODULE Spec2Model ----
(***************************************************************************)
(* Transform layers and dataset helpers of galileo (python side):          *)
(*   RelationTransform        (tf/python/transforms/relation.py)           *)
(*   MultiHopFeatureTransform (tf/python/transforms/multi_hop_feature.py)  *)
(*   RandomWalkNegTransform   (pytorch/python/transforms/rw_neg.py)        *)
(*   NeighborNegTransform     (tf/python/transforms/neighbor_neg.py)       *)
(*   RangeDataset             (tf/python/dataset/range_dataset.py)         *)
(*                                                                         *)
(* A tensor is a record [shape, data]: data is the row-major flattening.   *)
(* Each class is an independent unit with its own specification.           *)
(***************************************************************************)
EXTENDS Integers, Sequences, FiniteSets, TLC

VARIABLES
    rt,          \* the RelationTransform object (None before construction)
    rt_inputs,   \* the inputs of the last RelationTransform.transform call
    rt_result,   \* what that call returned or raised
    mhf,         \* the MultiHopFeatureTransform object (None before)
    mhf_ctor,    \* the arguments and outcome of its constructor call
    mhf_inputs,  \* the vertices of the last transform call
    mhf_result,  \* the dict that call returned
    pod_calls,   \* the get_pod_feature calls of that transform call
    rw,          \* the RandomWalkNegTransform object (None before)
    rw_ctor,     \* the arguments and outcome of its constructor call
    rw_inputs,   \* the inputs of the last transform call
    rw_result,   \* what that call returned or raised
    rw_ops,      \* the sampling calls of that transform call, in order
    nn,          \* the NeighborNegTransform object (None before)
    nn_inputs,   \* the inputs of the last transform call
    nn_result,   \* what that call returned or raised
    nn_ops,      \* the sampling calls of that transform call, in order
    ds,          \* the dataset RangeDataset returned (None before)
    ds_call,     \* the arguments RangeDataset was called with
    ds_iter,     \* the iterator over ds: the next value, or exhausted
    ds_yielded   \* the elements the iterator has yielded so far

relVars == <<rt, rt_inputs, rt_result>>
featVars == <<mhf, mhf_ctor, mhf_inputs, mhf_result, pod_calls>>
rwVars == <<rw, rw_ctor, rw_inputs, rw_result, rw_ops>>
nnVars == <<nn, nn_inputs, nn_result, nn_ops>>
dsVars == <<ds, ds_call, ds_iter, ds_yielded>>
notRelVars == <<featVars, rwVars, nnVars, dsVars>>
notFeatVars == <<relVars, rwVars, nnVars, dsVars>>
notRwVars == <<relVars, featVars, nnVars, dsVars>>
notNnVars == <<relVars, featVars, rwVars, dsVars>>
notDsVars == <<relVars, featVars, rwVars, nnVars>>
vars == <<rt, rt_inputs, rt_result,
          mhf, mhf_ctor, mhf_inputs, mhf_result, pod_calls,
          rw, rw_ctor, rw_inputs, rw_result, rw_ops,
          nn, nn_inputs, nn_result, nn_ops,
          ds, ds_call, ds_iter, ds_yielded>>

\* Python's None (a record, as every object of the model is)
None == [none |-> TRUE]

(***************************************************************************)
(* Bounds of the model.                                                    *)
(***************************************************************************)
MaxBatch == 3        \* batch sizes N in 1..MaxBatch
MaxId == 3           \* vertex ids / indices in 0..MaxId-1

\* the fanouts the transforms are constructed with; <<2, 3>> is the
\* docstring's example
FanoutsSet == {<<1>>, <<2>>, <<1, 2>>, <<2, 1>>, <<2, 3>>}

(***************************************************************************)
(* Tensor helpers: what the tf / torch calls used by the transforms do.    *)
(***************************************************************************)
RECURSIVE SumSeq(_)
SumSeq(s) == IF s = <<>> THEN 0 ELSE Head(s) + SumSeq(Tail(s))

RECURSIVE Prod(_)
Prod(s) == IF s = <<>> THEN 1 ELSE Head(s) * Prod(Tail(s))

RECURSIVE Flatten(_)
Flatten(m) == IF m = <<>> THEN <<>> ELSE Head(m) \o Flatten(Tail(m))

Tensor(shape, data) == [shape |-> shape, data |-> data]
Rank(t) == Len(t.shape)
Size(t) == Len(t.data)
ButLast(s) == SubSeq(s, 1, Len(s) - 1)
Raised(what) == [raised |-> what]
IsRaised(r) == "raised" \in DOMAIN r

\* tf.reshape(x, [-1, width]) as a list of rows
Rows(data, width) ==
    [n \in 1..(Len(data) \div width) |->
        [c \in 1..width |-> data[(n - 1) * width + c]]]

\* tf.transpose of a matrix with `width` columns
Transpose(m, width) ==
    [c \in 1..width |-> [n \in 1..Len(m) |-> m[n][c]]]

\* tf.gather(m, idx) along axis 0; idx holds 0-based positions
Gather(m, idx) == [k \in 1..Len(idx) |-> m[idx[k] + 1]]

\* tf.gather(m, idx, axis=1)
GatherAxis1(m, idx) == [r \in 1..Len(m) |-> Gather(m[r], idx)]

\* tf.split(m, k) along axis 0: k pieces of equal height
Split(m, k) ==
    LET h == Len(m) \div k
    IN  [p \in 1..k |-> SubSeq(m, (p - 1) * h + 1, p * h)]

\* tf.concat(pieces, axis=1) of matrices of equal height
ConcatAxis1(pieces) ==
    [r \in 1..Len(pieces[1]) |->
        Flatten([p \in 1..Len(pieces) |-> pieces[p][r]])]

\* tf.argsort(keys): ascending and stable (tf implements no unstable sort);
\* the result holds 0-based positions
ArgSort(keys) ==
    LET n == Len(keys)
        rk == [i \in 1..n |->
                 Cardinality({j \in 1..n :
                     \/ keys[j] < keys[i]
                     \/ (keys[j] = keys[i] /\ j < i)}) + 1]
    IN  [r \in 1..n |-> (CHOOSE i \in 1..n : rk[i] = r) - 1]

\* x[:, 1:] of a tensor of rank >= 2: drops index 0 of the SECOND axis
SliceAxis1From1(t) ==
    LET d1 == t.shape[1]
        d2 == t.shape[2]
        inner == Prod(SubSeq(t.shape, 3, Len(t.shape)))
        keep == IF d2 > 0 THEN d2 - 1 ELSE 0
    IN  Tensor(<<d1, keep>> \o SubSeq(t.shape, 3, Len(t.shape)),
               Flatten([a \in 1..d1 |->
                   SubSeq(t.data, (a - 1) * d2 * inner + inner + 1,
                                  a * d2 * inner)]))

(***************************************************************************)
(* galileo.framework.python.utils.utils, as RelationTransform uses it      *)
(***************************************************************************)
\* get_fanouts_list: the width of every hop, [1, f1, f1*f2, ...]
RECURSIVE get_fanouts_list(_)
get_fanouts_list(fanouts) ==
    IF fanouts = <<>> THEN <<1>>
    ELSE LET prev == get_fanouts_list(ButLast(fanouts))
         IN  Append(prev, prev[Len(prev)] * fanouts[Len(fanouts)])

\* the hop (1-based, 0 is the target) of 0-based column c
RECURSIVE HopOf(_, _, _)
HopOf(fl, c, h) ==
    IF c < fl[h + 1] THEN h ELSE HopOf(fl, c - fl[h + 1], h + 1)

HopStart(fl, h) == SumSeq(SubSeq(fl, 1, h))

\* the column of the vertex whose sampled neighbor fills column c
ParentColumn(fanouts, c) ==
    LET fl == get_fanouts_list(fanouts)
        h == HopOf(fl, c, 0)
        off == c - HopStart(fl, h)
    IN  HopStart(fl, h - 1) + (off \div fanouts[h])

\* get_fanouts_indices: a flat list of (column, column) pairs, one per
\* non-target column: [parent(1), 1, parent(2), 2, ...]
get_fanouts_indices(fanouts) ==
    LET dim == SumSeq(get_fanouts_list(fanouts))
    IN  [i \in 1..(2 * (dim - 1)) |->
            IF i % 2 = 1 THEN ParentColumn(fanouts, (i + 1) \div 2)
            ELSE i \div 2]

(***************************************************************************)
(* RelationTransform                                                       *)
(***************************************************************************)
\* __init__(fanouts, sort_indices)
RelationTransformInit(fanouts, sort_indices) ==
    [fanouts |-> fanouts,
     fanouts_list |-> get_fanouts_list(fanouts),
     fanouts_dim |-> SumSeq(get_fanouts_list(fanouts)),
     fanouts_indices |-> get_fanouts_indices(fanouts),
     sort_indices |-> sort_indices]

\* lines 93-99: a list/tuple, a dict, or a bare tensor
UnpackInputs(inputs) ==
    IF inputs.kind \in {"tuple", "dict"}
    THEN [indices |-> inputs.indices, edge_weight |-> inputs.edge_weight]
    ELSE [indices |-> inputs.indices, edge_weight |-> None]

\* lines 103-104
IndicesT(self, indices) ==
    Transpose(Rows(indices.data, self.fanouts_dim), self.fanouts_dim)

\* a transform that takes the first row of the reshaped indices instead of
\* the first column
TargetIndices_FirstRow(self, indices) ==
    LET row0 == Rows(indices.data, self.fanouts_dim)[1]
    IN  IF Rank(indices) > 2
        THEN Tensor(ButLast(indices.shape), row0)
        ELSE Tensor(<<Len(row0)>>, row0)

\* lines 105-109
TargetIndices(self, indices) ==
    LET row0 == IndicesT(self, indices)[1]
    IN  IF Rank(indices) > 2
        THEN Tensor(ButLast(indices.shape), row0)
        ELSE Tensor(<<Len(row0)>>, row0)

\* lines 110-114: a matrix of two rows
RelationGather(self, indices_t) ==
    ConcatAxis1(Split(Gather(indices_t, self.fanouts_indices),
                      Len(self.fanouts_indices) \div 2))

\* lines 116-118
RelationSort(self, relation_indices) ==
    IF self.sort_indices
    THEN GatherAxis1(relation_indices, ArgSort(relation_indices[1]))
    ELSE relation_indices

\* lines 110-118
RelationIndices(self, indices) ==
    LET m == RelationSort(self, RelationGather(self, IndicesT(self, indices)))
    IN  Tensor(<<2, Len(m[1])>>, Flatten(m))

\* lines 120-122
RelationWeight(edge_weight) ==
    IF edge_weight = None THEN None
    ELSE LET s == SliceAxis1From1(edge_weight)
         IN  Tensor(<<Size(s), 1>>, s.data)

\* transform(inputs): the returned dict, or the error the tf calls raise
RelationTransform_transform(self, inputs) ==
    LET in == UnpackInputs(inputs)
    IN  IF Size(in.indices) % self.fanouts_dim # 0
        THEN Raised("InvalidArgumentError")   \* reshape to [-1, fanouts_dim]
        ELSE IF /\ Rank(in.indices) > 2
                /\ Prod(ButLast(in.indices.shape)) #
                       Size(in.indices) \div self.fanouts_dim
        THEN Raised("InvalidArgumentError")   \* reshape of indices_t[0] to shp
        ELSE IF in.edge_weight # None /\ Rank(in.edge_weight) < 2
        THEN Raised("ValueError")             \* edge_weight[:, 1:] of a vector
        ELSE [relation_indices |-> RelationIndices(self, in.indices),
              relation_weight |-> RelationWeight(in.edge_weight),
              target_indices |-> TargetIndices(self, in.indices)]

(***************************************************************************)
(* The batches fed to RelationTransform.transform: indices and edge_weight *)
(* hold n * fanouts_dim elements (transform's docstring, line 84).         *)
(***************************************************************************)
Divisors(n) == {a \in 1..n : n % a = 0}

\* the shapes of n * d elements a caller passes: flat (the docstring's
\* tf.unique example), [n, d], batched [a, n/a, d], and [n, d, 1]
Shapes(n, d) ==
    {<<n * d>>, <<n, d>>, <<n, d, 1>>}
        \cup {<<a, n \div a, d>> : a \in Divisors(n)}

\* the ids a batch holds: n rows of d ids below MaxId
IdData(n, d, a, b) ==
    Flatten([r \in 1..n |-> [c \in 1..d |->
                (a * (r - 1) + b * (c - 1)) % MaxId]])

IndicesTensors(n, d) ==
    {Tensor(shp, IdData(n, d, a, b)) :
        shp \in Shapes(n, d), a \in 0..(MaxId - 1), b \in 0..(MaxId - 1)}

\* the weights a batch holds: constant, one per row, one per column, or
\* one per position
WeightPatterns == {<<0, 0>>, <<1, 0>>, <<0, 1>>, <<1, 1>>}

WeightData(n, d, pq) ==
    Flatten([r \in 1..n |-> [c \in 1..d |->
                1 + pq[1] * (r - 1) * d + pq[2] * (c - 1)]])

\* edge weights come as [n, d] or shaped like the indices
WeightTensors(n, d, indices) ==
    {Tensor(shp, WeightData(n, d, pq)) :
        shp \in {<<n, d>>, indices.shape}, pq \in WeightPatterns}

RelationInputsOf(n, d, i) ==
    {[kind |-> k, indices |-> i, edge_weight |-> w] :
        k \in {"tuple", "dict"}, w \in WeightTensors(n, d, i)}
    \cup {[kind |-> k, indices |-> i, edge_weight |-> None] :
            k \in {"dict", "tensor"}}

RelationInputs(n, d) ==
    UNION {RelationInputsOf(n, d, i) : i \in IndicesTensors(n, d)}

(***************************************************************************)
(* Actions of the RelationTransform unit                                   *)
(***************************************************************************)
RT_Construct ==
    /\ rt = None
    /\ \E fanouts \in FanoutsSet, sort_indices \in BOOLEAN :
           rt' = RelationTransformInit(fanouts, sort_indices)
    /\ UNCHANGED <<rt_inputs, rt_result>>
    /\ UNCHANGED notRelVars

RT_Transform ==
    /\ rt # None
    /\ rt_result = None
    /\ \E n \in 1..MaxBatch :
         \E inputs \in RelationInputs(n, rt.fanouts_dim) :
           /\ rt_inputs' = inputs
           /\ rt_result' = RelationTransform_transform(rt, inputs)
    /\ UNCHANGED rt
    /\ UNCHANGED notRelVars

\* the pipeline hands the result on and feeds the next batch
RT_NextBatch ==
    /\ rt_result # None
    /\ rt_inputs' = None
    /\ rt_result' = None
    /\ UNCHANGED rt
    /\ UNCHANGED notRelVars

RelNext == RT_Construct \/ RT_Transform \/ RT_NextBatch

(***************************************************************************)
(* Properties of RelationTransform.transform                               *)
(***************************************************************************)
RT_Returned == rt_result # None /\ ~IsRaised(rt_result)
RT_In == UnpackInputs(rt_inputs)
RT_BatchSize == Size(RT_In.indices) \div rt.fanouts_dim

\* for every column e of relation_indices, the flat position
\* (n * fanouts_dim + c + 1) of the neighbor-table entry (row n, non-target
\* column c) its second row was gathered from: the transform's own
\* gather/split/concat/sort applied to the table of positions
RelationOrigin(self, indices) ==
    LET positions == [i \in 1..Size(indices) |-> i]
        origin == RelationGather(self,
                      Transpose(Rows(positions, self.fanouts_dim),
                                self.fanouts_dim))
        keys == RelationGather(self, IndicesT(self, indices))[1]
    IN  IF self.sort_indices
        THEN GatherAxis1(origin, ArgSort(keys))[2]
        ELSE origin[2]

\* C1: every row e of relation_weight is the weight edge_weight[n][c] of
\* the relation in column e of relation_indices, built from row n and
\* non-target column c of the neighbor table
C1_WeightOfRelation ==
    (/\ RT_Returned
     /\ RT_In.edge_weight # None
     /\ RT_In.edge_weight.shape = <<RT_BatchSize, rt.fanouts_dim>>)
    => LET origin == RelationOrigin(rt, RT_In.indices)
           weight == rt_result.relation_weight.data
       IN  /\ Len(weight) = Len(origin)
           /\ \A e \in 1..Len(origin) :
                  weight[e] = RT_In.edge_weight.data[origin[e]]

\* C2: relation_indices is [2, E] and relation_weight is [E, 1] with the
\* same E = N * (fanouts_dim - 1), for indices and edge_weight of
\* N * fanouts_dim elements
C2_ShapeConsistency ==
    (RT_Returned /\ RT_In.edge_weight # None)
    => LET E == RT_BatchSize * (rt.fanouts_dim - 1)
       IN  /\ Size(RT_In.edge_weight) = RT_BatchSize * rt.fanouts_dim
           /\ rt_result.relation_indices.shape = <<2, E>>
           /\ Size(rt_result.relation_indices) = 2 * E
           /\ rt_result.relation_weight.shape = <<E, 1>>
           /\ Size(rt_result.relation_weight) = E

\* C3: target_indices holds one entry per batch row, entry n being the
\* first column of row n of indices viewed as [N, fanouts_dim]; its shape
\* is [N], and for an input of rank > 2 the input's shape without its last
\* dimension
C3_TargetIndices ==
    RT_Returned
    => LET N == RT_BatchSize
           target == rt_result.target_indices
       IN  /\ Size(target) = N
           /\ \A n \in 1..N :
                  target.data[n] =
                      RT_In.indices.data[(n - 1) * rt.fanouts_dim + 1]
           /\ target.shape = IF Rank(RT_In.indices) > 2
                             THEN ButLast(RT_In.indices.shape)
                             ELSE <<N>>
           /\ Prod(target.shape) = N

\* a batched (rank 3) input of several rows with distinct targets went
\* through transform
C3_Witness ==
    /\ RT_Returned
    /\ Rank(RT_In.indices) = 3
    /\ RT_BatchSize >= 2
    /\ rt_result.target_indices.shape[1] >= 2
    /\ rt_result.target_indices.data[1] # rt_result.target_indices.data[2]

(***************************************************************************)
(* MultiHopFeatureTransform                                                *)
(***************************************************************************)
\* python values that may be None, an int or a list
PyInt(v) == [int |-> v]
PyList(v) == [list |-> v]
IsInt(x) == "int" \in DOMAIN x
IsList(x) == "list" \in DOMAIN x
\* bool(x) of None, an int or a list
Truthy(x) ==
    IF x = None THEN FALSE
    ELSE IF IsInt(x) THEN x.int # 0
    ELSE x.list # <<>>
\* [v] * n
Repeat(v, n) == [i \in 1..n |-> v]

\* MultiHopNeighborTransform.__init__ (multi_hop.py), the parent
\* constructor: keeps its arguments as self.config
MultiHopNeighborTransformInit(metapath, fanouts, edge_weight, dense_feature_names, dense_feature_dims, sparse_feature_names, sparse_feature_dims) ==
    [config |->
        [metapath |-> metapath,
         fanouts |-> fanouts,
         edge_weight |-> edge_weight,
         dense_feature_names |-> dense_feature_names,
         dense_feature_dims |-> dense_feature_dims,
         sparse_feature_names |-> sparse_feature_names,
         sparse_feature_dims |-> sparse_feature_dims]]

CtorRaised(what, message) ==
    [raised |-> what, message |-> message,
     parent_invoked |-> FALSE, self |-> None]

\* lines 67-69: an int stands for one dim per name
DenseDimsList(dense_feature_names, dense_feature_dims) ==
    IF dense_feature_names # None /\ IsInt(dense_feature_dims)
    THEN PyList(Repeat(dense_feature_dims.int,
                       Len(dense_feature_names.list)))
    ELSE dense_feature_dims

\* lines 72-76: None stands for 1, an int for one dim per name
SparseDimsList(sparse_feature_names, sparse_feature_dims) ==
    LET dims == IF sparse_feature_dims = None THEN PyInt(1)
                ELSE sparse_feature_dims
    IN  IF sparse_feature_names = None THEN sparse_feature_dims
        ELSE IF IsInt(dims)
        THEN PyList(Repeat(dims.int, Len(sparse_feature_names.list)))
        ELSE dims

\* a constructor that looks at the first sparse dim only
SparseDimsRaise_FirstOnly(sparse_feature_names, dims) ==
    /\ sparse_feature_names # None
    /\ dims.list # <<>>
    /\ dims.list[1] # 1

\* lines 77-79: the loop over the sparse dims
SparseDimsRaise(sparse_feature_names, dims) ==
    /\ sparse_feature_names # None
    /\ \E i \in 1..Len(dims.list) : dims.list[i] # 1

\* __init__ (lines 41-88): what it raises, or the object it builds through
\* the parent constructor
MultiHopFeatureTransformInit(metapath, fanouts, edge_weight, dense_feature_names, dense_feature_dims, sparse_feature_names, sparse_feature_dims) ==
    LET dd == DenseDimsList(dense_feature_names, dense_feature_dims)
        sd == SparseDimsList(sparse_feature_names, sparse_feature_dims)
    IN  IF dense_feature_names = None /\ sparse_feature_names = None
        THEN CtorRaised("ValueError",
                 "one of dense or sparse feature names must be specified")
        ELSE IF dense_feature_names # None /\ ~Truthy(dense_feature_dims)
        THEN CtorRaised("AssertionError",
                 "must set dense_feature_dims(int or list[int])")
        ELSE IF /\ dense_feature_names # None
                /\ Len(dense_feature_names.list) # Len(dd.list)
        THEN CtorRaised("AssertionError", "")
        ELSE IF SparseDimsRaise(sparse_feature_names, sd)
        THEN CtorRaised("ValueError", "Only support one dim sparse feature")
        ELSE IF /\ sparse_feature_names # None
                /\ Len(sparse_feature_names.list) # Len(sd.list)
        THEN CtorRaised("AssertionError", "")
        ELSE [raised |-> "", message |-> "", parent_invoked |-> TRUE,
              self |-> MultiHopNeighborTransformInit(
                           metapath, fanouts, edge_weight,
                           dense_feature_names, dd,
                           sparse_feature_names, sd)]

\* ops.get_pod_feature([vertices], names, dims, types): one [V, dim] matrix
\* per feature name; the store is opaque, so component j of feature `name`
\* of vertex v is the term <<v, name, j>>
get_pod_feature(vertices, feature_names, feature_dims) ==
    [k \in 1..Len(feature_names) |->
        [i \in 1..Len(vertices) |->
            [j \in 1..feature_dims[k] |-> <<vertices[i], feature_names[k], j>>]]]

\* tf.concat(matrices, axis=-1) of matrices with the same number of rows
ConcatLast(matrices, nrows) ==
    [i \in 1..nrows |->
        Flatten([k \in 1..Len(matrices) |-> matrices[k][i]])]

\* tf.unique(x): the distinct values in the order of their first occurrence
RECURSIVE UniqueValues(_)
UniqueValues(x) ==
    IF x = <<>> THEN <<>>
    ELSE LET u == UniqueValues(ButLast(x))
             last == x[Len(x)]
         IN  IF \E k \in 1..Len(u) : u[k] = last THEN u ELSE Append(u, last)

\* tf.unique(x): for every element its 0-based position among the distinct
UniqueIndices(x) ==
    LET u == UniqueValues(x)
    IN  [i \in 1..Len(x) |-> (CHOOSE k \in 1..Len(u) : u[k] = x[i]) - 1]

\* get_feature (lines 130-150)
get_feature(vertices, feature_names, feature_dims, indices, origin_shape) ==
    IF feature_names = None THEN None
    ELSE LET features == ConcatLast(
                 get_pod_feature(vertices, feature_names.list,
                                 feature_dims.list),
                 Len(vertices))
             gathered == Gather(features, indices)
         IN  Tensor(origin_shape \o <<SumSeq(feature_dims.list)>>,
                    Flatten(gathered))

\* the get_pod_feature calls get_feature makes (line 141)
PodCallsOf(vertices, feature_names, feature_dims, feature_type) ==
    IF feature_names = None THEN <<>>
    ELSE <<[vertices |-> vertices, feature_names |-> feature_names.list,
            feature_dims |-> feature_dims.list,
            feature_type |-> feature_type]>>

\* outputs[key] = value
Put(d, key, value) ==
    [x \in DOMAIN d \cup {key} |-> IF x = key THEN value ELSE d[x]]

\* a transform whose distinct vertices are sorted (as numpy's unique does)
\* while the indices still count first occurrences
TransformUnique_Sorted(multi_hops) ==
    LET vertices_flat == multi_hops[1].data
        u == UniqueValues(vertices_flat)
    IN  [vertices |-> Gather(u, ArgSort(u)),
         indices |-> UniqueIndices(vertices_flat)]

\* lines 104-105 of transform
TransformUnique(multi_hops) ==
    LET vertices_flat == multi_hops[1].data
    IN  [vertices |-> UniqueValues(vertices_flat),
         indices |-> UniqueIndices(vertices_flat)]

\* a transform that tests the option against None, which a bool never is
WithEdgeWeight_NotNone(config, outputs, multi_hops) ==
    Put(outputs, "edge_weight", multi_hops[2])

\* lines 126-127
WithEdgeWeight(config, outputs, multi_hops) ==
    IF config.edge_weight
    THEN Put(outputs, "edge_weight", multi_hops[2]) ELSE outputs

\* transform (lines 90-128), multi_hops being what sample_multi_hop
\* returned: the dict it returns
MultiHopFeatureTransform_transform(self, multi_hops) ==
    LET config == self.config
        u == TransformUnique(multi_hops)
        dense_features ==
            get_feature(u.vertices, config.dense_feature_names,
                        config.dense_feature_dims, u.indices,
                        multi_hops[1].shape)
        sparse_features ==
            get_feature(u.vertices, config.sparse_feature_names,
                        config.sparse_feature_dims, u.indices,
                        multi_hops[1].shape)
        o1 == [ids |-> multi_hops[1]]
        o2 == IF dense_features # None
              THEN Put(o1, "dense", dense_features) ELSE o1
        o3 == IF sparse_features # None
              THEN Put(o2, "sparse", sparse_features) ELSE o2
    IN  WithEdgeWeight(config, o3, multi_hops)

\* the get_pod_feature calls of one transform call, in order
MultiHopFeatureTransform_pod_calls(self, multi_hops) ==
    LET config == self.config
        u == TransformUnique(multi_hops)
    IN  PodCallsOf(u.vertices, config.dense_feature_names,
                   config.dense_feature_dims, "float32")
        \o PodCallsOf(u.vertices, config.sparse_feature_names,
                      config.sparse_feature_dims, "int64")

\* MultiHopNeighborTransform.sample_multi_hop (multi_hop.py), the parent's
\* sampler: the neighbor table [B, fanouts_dim] of the input
\* vertices, column 0 holding the inputs, and the weights of its edges
sample_multi_hop(self, nrows, a, b, pq) ==
    LET d == SumSeq(get_fanouts_list(self.config.fanouts))
    IN  <<Tensor(<<nrows, d>>, IdData(nrows, d, a, b)),
          Tensor(<<nrows, d>>, WeightData(nrows, d, pq))>>

(***************************************************************************)
(* Constructor arguments of MultiHopFeatureTransform                       *)
(***************************************************************************)
MaxDim == 2
FeatureFanouts == {<<2>>, <<2, 3>>}
DenseNames == {PyList(<<"feature">>), PyList(<<"feature", "degree">>)}
SparseNames == {PyList(<<"category">>), PyList(<<"category", "brand">>)}
DimLists == {PyList(<<x>>) : x \in 1..MaxDim}
                \cup {PyList(<<x, y>>) : x \in 1..MaxDim, y \in 1..MaxDim}
DimArgs == {None} \cup {PyInt(x) : x \in 0..MaxDim} \cup DimLists
\* names and the dims passed along with them
FeatureArgs(names) ==
    {<<None, None>>} \cup {<<n, d>> : n \in names, d \in DimArgs}

(***************************************************************************)
(* Actions of the MultiHopFeatureTransform unit                            *)
(***************************************************************************)
MHF_Construct ==
    /\ mhf_ctor = None
    /\ \E fanouts \in FeatureFanouts, edge_weight \in BOOLEAN,
          dense \in FeatureArgs(DenseNames),
          sparse \in FeatureArgs(SparseNames) :
         LET metapath == Repeat(<<0>>, Len(fanouts))
             made == MultiHopFeatureTransformInit(
                         metapath, fanouts, edge_weight,
                         dense[1], dense[2], sparse[1], sparse[2])
         IN  /\ mhf_ctor' =
                    [dense_feature_names |-> dense[1],
                     dense_feature_dims |-> dense[2],
                     sparse_feature_names |-> sparse[1],
                     sparse_feature_dims |-> sparse[2],
                     edge_weight |-> edge_weight,
                     raised |-> made.raised,
                     message |-> made.message,
                     parent_invoked |-> made.parent_invoked]
             /\ mhf' = made.self
    /\ UNCHANGED <<mhf_inputs, mhf_result, pod_calls>>
    /\ UNCHANGED notFeatVars

MHF_Transform ==
    /\ mhf # None
    /\ mhf_result = None
    /\ \E nrows \in 1..MaxBatch, a \in 0..(MaxId - 1), b \in 0..(MaxId - 1),
          pq \in (IF mhf.config.edge_weight THEN WeightPatterns
                  ELSE {<<0, 0>>}) :
         LET multi_hops == sample_multi_hop(mhf, nrows, a, b, pq)
         IN  /\ mhf_inputs' = [r \in 1..nrows |-> multi_hops[1].data[
                       (r - 1) * multi_hops[1].shape[2] + 1]]
             /\ mhf_result' =
                    MultiHopFeatureTransform_transform(mhf, multi_hops)
             /\ pod_calls' =
                    MultiHopFeatureTransform_pod_calls(mhf, multi_hops)
    /\ UNCHANGED <<mhf, mhf_ctor>>
    /\ UNCHANGED notFeatVars

\* the pipeline hands the result on and feeds the next batch
MHF_NextBatch ==
    /\ mhf_result # None
    /\ mhf_inputs' = None
    /\ mhf_result' = None
    /\ pod_calls' = <<>>
    /\ UNCHANGED <<mhf, mhf_ctor>>
    /\ UNCHANGED notFeatVars

FeatNext == MHF_Construct \/ MHF_Transform \/ MHF_NextBatch

(***************************************************************************)
(* Properties of MultiHopFeatureTransform                                  *)
(***************************************************************************)
MHF_Returned == mhf_result # None

\* the feature vector the store holds for vertex v
FeatureOf(v, names, dims) ==
    Flatten([k \in 1..Len(names) |->
                [j \in 1..dims[k] |-> <<v, names[k], j>>]])

ValuesOf(x) == {x[i] : i \in 1..Len(x)}

\* result[key] holds, at every position of ids, the feature of the vertex
\* there, and has the shape of ids followed by sum(dims)
FeatureAligned(key, names, dims) ==
    LET ids == mhf_result.ids
        width == SumSeq(dims)
        feat == mhf_result[key]
    IN  /\ feat.shape = ids.shape \o <<width>>
        /\ Size(feat) = Size(ids) * width
        /\ \A pos \in 1..Size(ids) :
               SubSeq(feat.data, (pos - 1) * width + 1, pos * width)
                   = FeatureOf(ids.data[pos], names, dims)

\* C4: features are fetched once per distinct vertex id of the neighbor
\* table and gathered back: dense[b][j] (and sparse[b][j]) is the feature of
\* vertex ids[b][j], and the feature tensor's shape is the shape of ids
\* followed by sum(feature_dims)
C4_FeatureOfVertex ==
    MHF_Returned
    => /\ \A c \in 1..Len(pod_calls) :
              /\ ValuesOf(pod_calls[c].vertices) = ValuesOf(mhf_result.ids.data)
              /\ Cardinality(ValuesOf(pod_calls[c].vertices))
                     = Len(pod_calls[c].vertices)
       /\ "dense" \in DOMAIN mhf_result
              => /\ FeatureAligned("dense",
                                   mhf.config.dense_feature_names.list,
                                   mhf.config.dense_feature_dims.list)
                 /\ \E c \in 1..Len(pod_calls) :
                        pod_calls[c].feature_type = "float32"
       /\ "sparse" \in DOMAIN mhf_result
              => /\ FeatureAligned("sparse",
                                   mhf.config.sparse_feature_names.list,
                                   mhf.config.sparse_feature_dims.list)
                 /\ \E c \in 1..Len(pod_calls) :
                        pod_calls[c].feature_type = "int64"
       /\ Len(pod_calls) = Cardinality(DOMAIN mhf_result \cap {"dense", "sparse"})

\* a neighbor table that repeats a vertex, and whose distinct vertices do
\* not first occur in ascending order, went through transform with dense
\* features of two names
C4_Witness ==
    /\ MHF_Returned
    /\ "dense" \in DOMAIN mhf_result
    /\ Len(mhf.config.dense_feature_names.list) = 2
    /\ mhf_result.ids.shape[1] >= 2
    /\ Len(pod_calls[1].vertices) < Size(mhf_result.ids)
    /\ \E i \in 1..(Len(pod_calls[1].vertices) - 1) :
           pod_calls[1].vertices[i] > pod_calls[1].vertices[i + 1]

\* C7: transform returns 'ids' always, 'dense' iff dense_feature_names is
\* not None, 'sparse' iff sparse_feature_names is not None, 'edge_weight'
\* iff the edge_weight option is true, and no other key
C7_OutputKeys ==
    MHF_Returned
    => DOMAIN mhf_result =
           {"ids"}
           \cup (IF mhf_ctor.dense_feature_names # None
                 THEN {"dense"} ELSE {})
           \cup (IF mhf_ctor.sparse_feature_names # None
                 THEN {"sparse"} ELSE {})
           \cup (IF mhf_ctor.edge_weight THEN {"edge_weight"} ELSE {})

\* transform returned for an object with dense names only and edge weights
C7_Witness ==
    /\ MHF_Returned
    /\ mhf_ctor.dense_feature_names # None
    /\ mhf_ctor.sparse_feature_names = None
    /\ mhf_ctor.edge_weight
    /\ DOMAIN mhf_result = {"ids", "dense", "edge_weight"}

\* some sparse feature dimension, as passed, differs from 1
AnySparseDimNot1 ==
    /\ mhf_ctor.sparse_feature_names # None
    /\ \/ /\ IsInt(mhf_ctor.sparse_feature_dims)
          /\ mhf_ctor.sparse_feature_dims.int # 1
       \/ /\ IsList(mhf_ctor.sparse_feature_dims)
          /\ \E i \in 1..Len(mhf_ctor.sparse_feature_dims.list) :
                 mhf_ctor.sparse_feature_dims.list[i] # 1

BothNamesNone ==
    /\ mhf_ctor.dense_feature_names = None
    /\ mhf_ctor.sparse_feature_names = None

\* the dense arguments, as passed, pass the assertions of lines 64-70
DenseArgsPass ==
    \/ mhf_ctor.dense_feature_names = None
    \/ /\ IsInt(mhf_ctor.dense_feature_dims)
       /\ mhf_ctor.dense_feature_dims.int # 0
    \/ /\ IsList(mhf_ctor.dense_feature_dims)
       /\ Len(mhf_ctor.dense_feature_dims.list)
              = Len(mhf_ctor.dense_feature_names.list)

\* C8 as stated: ValueError when both names are None, ValueError ('Only
\* support one dim sparse feature') when sparse names are given and some
\* sparse dim differs from 1; the parent constructor is not invoked then
C8_CtorValidation ==
    mhf_ctor # None
    => /\ BothNamesNone
              => mhf_ctor.raised = "ValueError" /\ ~mhf_ctor.parent_invoked
       /\ AnySparseDimNot1
              => /\ mhf_ctor.raised = "ValueError"
                 /\ mhf_ctor.message = "Only support one dim sparse feature"
                 /\ ~mhf_ctor.parent_invoked

\* C8 amended: the ValueError of the sparse dims is raised provided the
\* dense arguments pass their assertions, which come first; otherwise the
\* constructor raises AssertionError; the parent constructor is invoked in
\* none of these cases
C8_CtorValidationAmended ==
    mhf_ctor # None
    => /\ BothNamesNone
              => mhf_ctor.raised = "ValueError" /\ ~mhf_ctor.parent_invoked
       /\ (AnySparseDimNot1 /\ DenseArgsPass)
              => /\ mhf_ctor.raised = "ValueError"
                 /\ mhf_ctor.message = "Only support one dim sparse feature"
                 /\ ~mhf_ctor.parent_invoked
       /\ (AnySparseDimNot1 /\ ~DenseArgsPass)
              => /\ mhf_ctor.raised = "AssertionError"
                 /\ ~mhf_ctor.parent_invoked

\* the constructor was called with valid dense arguments and a list of
\* sparse dims whose first is 1 and whose second is not, and raised
C8_Witness ==
    /\ mhf_ctor # None
    /\ mhf_ctor.dense_feature_names # None
    /\ DenseArgsPass
    /\ mhf_ctor.sparse_feature_names # None
    /\ IsList(mhf_ctor.sparse_feature_dims)
    /\ Len(mhf_ctor.sparse_feature_dims.list) = 2
    /\ mhf_ctor.sparse_feature_dims.list[1] = 1
    /\ mhf_ctor.sparse_feature_dims.list[2] # 1
    /\ mhf_ctor.raised = "ValueError"
    /\ mhf = None

(***************************************************************************)
(* RandomWalkNegTransform                                                  *)
(***************************************************************************)
\* BaseTransform.__init__ (base_transform.py), the parent constructor:
\* keeps the config as self.config
BaseTransformInit(config) == [config |-> config]

\* a check that asks for both arguments
MissingWalk_Either(walk_length, metapath) ==
    walk_length = None \/ metapath = None

\* line 65
MissingWalk(walk_length, metapath) ==
    walk_length = None /\ metapath = None

\* a derivation that prefers walk_length to a given metapath
DeriveMetapath_WalkFirst(edge_types, walk_length, metapath) ==
    IF walk_length # None
    THEN PyList(Repeat(edge_types, walk_length.int))
    ELSE metapath

\* lines 69-70
DeriveMetapath(edge_types, walk_length, metapath) ==
    IF metapath = None
    THEN PyList(Repeat(edge_types, walk_length.int))
    ELSE metapath

\* __init__ (lines 43-83)
RandomWalkNegTransformInit(vertex_type, edge_types, negative_num, context_size, repetition, walk_p, walk_q, walk_length, metapath) ==
    IF MissingWalk(walk_length, metapath)
    THEN CtorRaised("ValueError",
                    "one of walk_length and metapath must be specified")
    ELSE [raised |-> "", message |-> "", parent_invoked |-> TRUE,
          self |-> BaseTransformInit(
              [vertex_type |-> vertex_type,
               edge_types |-> edge_types,
               negative_num |-> negative_num,
               context_size |-> context_size,
               repetition |-> repetition,
               walk_p |-> walk_p,
               walk_q |-> walk_q,
               walk_length |-> walk_length,
               metapath |-> DeriveMetapath(edge_types, walk_length,
                                           metapath)])]

\* inputs.flatten().contiguous() (lines 98-100)
FlattenTensor(t) == Tensor(<<Size(t)>>, t.data)

\* a split that hands out both columns swapped
SplitPair_Swapped(pair) ==
    LET P == pair.shape[1]
    IN  <<Tensor(<<P, 1>>, [i \in 1..P |-> pair.data[2 * i]]),
          Tensor(<<P, 1>>, [i \in 1..P |-> pair.data[2 * i - 1]])>>

\* torch.split(pair, [1, 1], dim=-1) of a [P, 2] tensor (line 110)
SplitPair(pair) ==
    LET P == pair.shape[1]
    IN  <<Tensor(<<P, 1>>, [i \in 1..P |-> pair.data[2 * i - 1]]),
          Tensor(<<P, 1>>, [i \in 1..P |-> pair.data[2 * i]])>>

\* the arguments of ops.sample_pairs_by_random_walk (lines 101-106)
PairCall(self, inputs, pair) ==
    [op |-> "sample_pairs_by_random_walk",
     vertices |-> FlattenTensor(inputs),
     metapath |-> self.config.metapath,
     repetition |-> self.config.repetition,
     context_size |-> self.config.context_size,
     p |-> self.config.walk_p,
     q |-> self.config.walk_q,
     returned |-> pair]

\* the arguments of ops.sample_vertices (lines 111-112)
NegativeCall(self, pair, sampled) ==
    [op |-> "sample_vertices",
     types |-> self.config.vertex_type,
     count |-> self.config.negative_num * pair.shape[1],
     returned |-> sampled]

\* a transform that samples the negatives before it looks at the pair
RandomWalkNegTransform_ops_Eager(self, inputs, pair, sampled) ==
    IF pair = None
    THEN <<PairCall(self, inputs, pair),
           [op |-> "sample_vertices",
            types |-> self.config.vertex_type,
            count |-> 0,
            returned |-> sampled]>>
    ELSE <<PairCall(self, inputs, pair), NegativeCall(self, pair, sampled)>>

\* the sampling calls of transform, pair being what
\* sample_pairs_by_random_walk returned (lines 101-112)
RandomWalkNegTransform_ops(self, inputs, pair, sampled) ==
    IF pair = None
    THEN <<PairCall(self, inputs, pair)>>
    ELSE <<PairCall(self, inputs, pair), NegativeCall(self, pair, sampled)>>

\* transform (lines 85-118): the dict it returns or the error it raises
RandomWalkNegTransform_transform(self, inputs, pair, sampled) ==
    IF pair = None
    THEN Raised("ValueError")
    ELSE LET tc == SplitPair(pair)
             P == pair.shape[1]
         IN  [target |-> tc[1],
              context |-> tc[2],
              negative |-> Tensor(<<P, self.config.negative_num>>, sampled)]

\* ops.sample_pairs_by_random_walk (the sampling engine, opaque): None, or
\* P (source, context) pairs for the given vertices
sample_pairs_by_random_walk(vertices, P, c) ==
    Tensor(<<P, 2>>,
           Flatten([i \in 1..P |->
               LET src == vertices.data[((i - 1) % Size(vertices)) + 1]
               IN  <<src, (src + c + i) % MaxId>>]))

\* ops.sample_vertices(types, count)[0] (the sampling engine, opaque):
\* `count` vertices
sample_vertices(count) == [i \in 1..count |-> (i - 1) % MaxId]

(***************************************************************************)
(* Arguments of RandomWalkNegTransform                                     *)
(***************************************************************************)
MaxNeg == 2          \* negative_num in 1..MaxNeg
MaxWalk == 2         \* walk_length in 0..MaxWalk
MaxPairs == 3        \* the sampler returns 0..MaxPairs pairs
EdgeTypes == {<<0>>, <<0, 1>>}
ContextSizes == {1, 2}
Metapaths == {None, PyList(<<<<0>>>>), PyList(<<<<0>>, <<1>>>>)}
WalkLengths == {None} \cup {PyInt(x) : x \in 0..MaxWalk}

\* the shapes of the n vertices handed to a transform: a vector, a column
\* or a row
VertexShapes(n) == {<<n>>, <<n, 1>>, <<1, n>>}

VertexInputsOf(n) ==
    {Tensor(shp, [r \in 1..n |-> (a * r) % MaxId]) :
        shp \in VertexShapes(n), a \in 0..(MaxId - 1)}

VertexInputs == UNION {VertexInputsOf(n) : n \in 1..MaxBatch}

(***************************************************************************)
(* Actions of the RandomWalkNegTransform unit                              *)
(***************************************************************************)
RW_Construct ==
    /\ rw_ctor = None
    /\ \E edge_types \in EdgeTypes, negative_num \in 1..MaxNeg,
          context_size \in ContextSizes,
          walk_length \in WalkLengths, metapath \in Metapaths :
         LET made == RandomWalkNegTransformInit(
                         <<0>>, edge_types, negative_num, context_size,
                         1, 1, 1, walk_length, metapath)
         IN  /\ rw_ctor' = [edge_types |-> edge_types,
                            negative_num |-> negative_num,
                            context_size |-> context_size,
                            walk_length |-> walk_length,
                            metapath |-> metapath,
                            raised |-> made.raised,
                            message |-> made.message,
                            parent_invoked |-> made.parent_invoked]
             /\ rw' = made.self
    /\ UNCHANGED <<rw_inputs, rw_result, rw_ops>>
    /\ UNCHANGED notRwVars

\* transform when the sampler fails: it returns None
RW_TransformNoPair ==
    /\ rw # None
    /\ rw_result = None
    /\ \E inputs \in VertexInputs :
         /\ rw_inputs' = inputs
         /\ rw_result' =
                RandomWalkNegTransform_transform(rw, inputs, None, <<>>)
         /\ rw_ops' = RandomWalkNegTransform_ops(rw, inputs, None, <<>>)
    /\ UNCHANGED <<rw, rw_ctor>>
    /\ UNCHANGED notRwVars

\* transform when the sampler returns P pairs
RW_Transform ==
    /\ rw # None
    /\ rw_result = None
    /\ \E inputs \in VertexInputs, P \in 0..MaxPairs, c \in 0..(MaxId - 1) :
         LET pair == sample_pairs_by_random_walk(FlattenTensor(inputs), P, c)
             sampled == sample_vertices(rw.config.negative_num * P)
         IN  /\ rw_inputs' = inputs
             /\ rw_result' =
                    RandomWalkNegTransform_transform(rw, inputs, pair, sampled)
             /\ rw_ops' =
                    RandomWalkNegTransform_ops(rw, inputs, pair, sampled)
    /\ UNCHANGED <<rw, rw_ctor>>
    /\ UNCHANGED notRwVars

\* the pipeline hands the result on (or drops the failed batch) and feeds
\* the next batch
RW_NextBatch ==
    /\ rw_result # None
    /\ rw_inputs' = None
    /\ rw_result' = None
    /\ rw_ops' = <<>>
    /\ UNCHANGED <<rw, rw_ctor>>
    /\ UNCHANGED notRwVars

RwNext == RW_Construct \/ RW_TransformNoPair \/ RW_Transform \/ RW_NextBatch

(***************************************************************************)
(* Properties of RandomWalkNegTransform                                    *)
(***************************************************************************)
RW_Returned == rw_result # None /\ ~IsRaised(rw_result)

\* C5: when the sampler returns a pair tensor of P rows, the result has
\* exactly the keys target, context, negative; target and context are
\* [P, 1] with target[i] = pair[i][0] and context[i] = pair[i][1]; negative
\* is [P, negative_num]
C5_PairsAndNegatives ==
    (rw_result # None /\ rw_ops[1].returned # None)
    => LET pair == rw_ops[1].returned
           P == pair.shape[1]
       IN  /\ ~IsRaised(rw_result)
           /\ DOMAIN rw_result = {"target", "context", "negative"}
           /\ rw_result.target.shape = <<P, 1>>
           /\ rw_result.context.shape = <<P, 1>>
           /\ Size(rw_result.target) = P
           /\ Size(rw_result.context) = P
           /\ \A i \in 1..P :
                 /\ rw_result.target.data[i] = pair.data[2 * (i - 1) + 1]
                 /\ rw_result.context.data[i] = pair.data[2 * (i - 1) + 2]
           /\ rw_result.negative.shape = <<P, rw_ctor.negative_num>>
           /\ Size(rw_result.negative) = P * rw_ctor.negative_num

\* transform returned for several pairs whose sources and contexts differ,
\* with several negatives per pair
C5_Witness ==
    /\ RW_Returned
    /\ rw_ops[1].returned.shape[1] >= 2
    /\ rw_ctor.negative_num >= 2
    /\ rw_result.target.data # rw_result.context.data

\* C6: the constructor raises ValueError ('one of walk_length and metapath
\* must be specified') before any config is stored when walk_length and
\* metapath are both None, and does not raise it when one of them is given
C6_CtorWalkOrMetapath ==
    rw_ctor # None
    => IF rw_ctor.walk_length = None /\ rw_ctor.metapath = None
       THEN /\ rw_ctor.raised = "ValueError"
            /\ rw_ctor.message =
                   "one of walk_length and metapath must be specified"
            /\ ~rw_ctor.parent_invoked
            /\ rw = None
       ELSE /\ rw_ctor.raised = ""
            /\ rw # None

\* the constructor was called with neither walk_length nor metapath
C6_Witness ==
    /\ rw_ctor # None
    /\ rw_ctor.walk_length = None
    /\ rw_ctor.metapath = None
    /\ rw_ctor.raised = "ValueError"

\* transform has made its sampling calls
RW_Called == rw_result # None /\ rw_ops # <<>>

\* C11: when metapath is None and walk_length = L, the stored metapath is
\* a list of exactly L entries, each equal to edge_types; when metapath is
\* given it is stored unchanged whatever walk_length is; in both cases the
\* sampler is handed the stored metapath
C11_MetapathDerivation ==
    (rw_ctor # None /\ rw_ctor.raised = "")
    => /\ rw # None
       /\ IF rw_ctor.metapath = None
          THEN /\ IsList(rw.config.metapath)
               /\ Len(rw.config.metapath.list) = rw_ctor.walk_length.int
               /\ \A i \in 1..Len(rw.config.metapath.list) :
                     rw.config.metapath.list[i] = rw_ctor.edge_types
          ELSE rw.config.metapath = rw_ctor.metapath
       /\ RW_Called
          => /\ rw_ops[1].op = "sample_pairs_by_random_walk"
             /\ rw_ops[1].metapath = rw.config.metapath

\* a metapath was given together with a walk_length that differs from its
\* length and from None, and transform handed it to the sampler
C11_Witness ==
    /\ rw_ctor # None
    /\ rw_ctor.metapath # None
    /\ rw_ctor.walk_length # None
    /\ rw_ctor.walk_length.int # Len(rw_ctor.metapath.list)
    /\ rw_ctor.metapath.list[1] # rw_ctor.edge_types
    /\ RW_Called
    /\ rw_ops[1].metapath = rw_ctor.metapath

\* the metapath was derived from a walk_length of at least 2 over several
\* edge types, and transform handed it to the sampler
C11_DerivedReached ==
    /\ rw_ctor # None
    /\ rw_ctor.raised = ""
    /\ rw_ctor.metapath = None
    /\ rw_ctor.walk_length.int >= 2
    /\ Len(rw_ctor.edge_types) >= 2
    /\ RW_Called
    /\ Len(rw_ops[1].metapath.list) = rw_ctor.walk_length.int

\* the positions of the sample_vertices calls among the sampling calls
NegativeCalls == {i \in 1..Len(rw_ops) : rw_ops[i].op = "sample_vertices"}

\* C12: when sample_pairs_by_random_walk returns None, transform raises
\* ValueError and sample_vertices is not called for that input; otherwise
\* sample_vertices is called exactly once, after the pair call, with
\* count = negative_num * P, P being the rows of the pair tensor
C12_FailurePath ==
    rw_result # None
    => /\ Len(rw_ops) >= 1
       /\ rw_ops[1].op = "sample_pairs_by_random_walk"
       /\ IF rw_ops[1].returned = None
          THEN /\ rw_result = Raised("ValueError")
               /\ NegativeCalls = {}
          ELSE /\ ~IsRaised(rw_result)
               /\ NegativeCalls = {2}
               /\ rw_ops[2].count =
                      rw_ctor.negative_num * rw_ops[1].returned.shape[1]
               /\ rw_ops[2].types = rw.config.vertex_type

\* the sampler returned None and transform raised
C12_Witness ==
    /\ rw_result = Raised("ValueError")
    /\ Len(rw_ops) = 1
    /\ rw_ops[1].returned = None

\* the sampler returned several pairs and the negatives were sampled once
C12_SampledReached ==
    /\ RW_Returned
    /\ rw_ops[1].returned.shape[1] >= 2
    /\ rw_ctor.negative_num >= 2
    /\ Len(rw_ops) = 2
    /\ rw_ops[2].count >= 4

(***************************************************************************)
(* NeighborNegTransform                                                    *)
(***************************************************************************)
\* __init__ (lines 27-37)
NeighborNegTransformInit(vertex_type, edge_types, negative_num) ==
    BaseTransformInit([vertex_type |-> vertex_type,
                       edge_types |-> edge_types,
                       negative_num |-> negative_num])

\* a reshape to one row instead of one column
ReshapeColumn_Row(data) == Tensor(<<1, Len(data)>>, data)

\* tf.reshape(x, [-1, 1]) (lines 56-57)
ReshapeColumn(data) == Tensor(<<Len(data), 1>>, data)

\* the arguments of ops.sample_neighbors (lines 50-53)
NeighborCall(self, inputs, context) ==
    [op |-> "sample_neighbors",
     vertices |-> inputs.data,
     edge_types |-> self.config.edge_types,
     count |-> 1,
     has_weight |-> FALSE,
     returned |-> context]

\* the arguments of ops.sample_vertices (lines 59-60)
NeighborNegativeCall(self, inputs, sampled) ==
    [op |-> "sample_vertices",
     types |-> self.config.vertex_type,
     count |-> Size(ReshapeColumn(inputs.data)) * self.config.negative_num,
     returned |-> sampled]

\* the sampling calls of transform, context being the list
\* sample_neighbors returned
NeighborNegTransform_ops(self, inputs, context, sampled) ==
    IF Len(context) = 0
    THEN <<NeighborCall(self, inputs, context)>>
    ELSE <<NeighborCall(self, inputs, context),
           NeighborNegativeCall(self, inputs, sampled)>>

\* transform (lines 39-62): the dict it returns or the error it raises
NeighborNegTransform_transform(self, inputs, context, sampled) ==
    IF Len(context) = 0
    THEN Raised("ValueError")
    ELSE LET target == ReshapeColumn(inputs.data)
             size == Size(target)
         IN  [target |-> target,
              context |-> ReshapeColumn(context[1].data),
              negative |-> Tensor(<<size, self.config.negative_num>>,
                                  sampled)]

\* ops.sample_neighbors(vertices, edge_types, count, has_weight=False) (the
\* sampling engine, opaque): a list holding the [n, count] tensor of the
\* neighbors sampled for each vertex
sample_neighbors(vertices, count, c) ==
    <<Tensor(<<Len(vertices), count>>,
             Flatten([i \in 1..Len(vertices) |->
                 [k \in 1..count |-> (vertices[i] + c + i + k) % MaxId]]))>>

(***************************************************************************)
(* Actions of the NeighborNegTransform unit                                *)
(***************************************************************************)
NN_Construct ==
    /\ nn = None
    /\ \E edge_types \in EdgeTypes, negative_num \in 1..MaxNeg :
           nn' = NeighborNegTransformInit(<<0>>, edge_types, negative_num)
    /\ UNCHANGED <<nn_inputs, nn_result, nn_ops>>
    /\ UNCHANGED notNnVars

\* transform when the sampler fails: it returns an empty list
NN_TransformNoNeighbors ==
    /\ nn # None
    /\ nn_result = None
    /\ \E inputs \in VertexInputs :
         /\ nn_inputs' = inputs
         /\ nn_result' =
                NeighborNegTransform_transform(nn, inputs, <<>>, <<>>)
         /\ nn_ops' = NeighborNegTransform_ops(nn, inputs, <<>>, <<>>)
    /\ UNCHANGED nn
    /\ UNCHANGED notNnVars

NN_Transform ==
    /\ nn # None
    /\ nn_result = None
    /\ \E inputs \in VertexInputs, c \in 0..(MaxId - 1) :
         LET context == sample_neighbors(inputs.data, 1, c)
             sampled == sample_vertices(
                            Size(inputs) * nn.config.negative_num)
         IN  /\ nn_inputs' = inputs
             /\ nn_result' =
                    NeighborNegTransform_transform(nn, inputs, context, sampled)
             /\ nn_ops' =
                    NeighborNegTransform_ops(nn, inputs, context, sampled)
    /\ UNCHANGED nn
    /\ UNCHANGED notNnVars

\* the pipeline hands the result on (or drops the failed batch) and feeds
\* the next batch
NN_NextBatch ==
    /\ nn_result # None
    /\ nn_inputs' = None
    /\ nn_result' = None
    /\ nn_ops' = <<>>
    /\ UNCHANGED nn
    /\ UNCHANGED notNnVars

NnNext ==
    NN_Construct \/ NN_TransformNoNeighbors \/ NN_Transform \/ NN_NextBatch

(***************************************************************************)
(* Properties of NeighborNegTransform                                      *)
(***************************************************************************)
NN_Returned == nn_result # None /\ ~IsRaised(nn_result)

\* C10: for inputs of N elements in any shape, target is [N, 1] and lists
\* the input vertices in flattened order, context is [N, 1] with context[i]
\* the single neighbor sampled for target[i], negative is
\* [N, negative_num], and the result has exactly these three keys
C10_NeighborNeg ==
    NN_Returned
    => LET N == Size(nn_inputs)
       IN  /\ DOMAIN nn_result = {"target", "context", "negative"}
           /\ nn_result.target.shape = <<N, 1>>
           /\ nn_result.target.data = nn_inputs.data
           /\ nn_result.context.shape = <<N, 1>>
           /\ Size(nn_result.context) = N
           /\ nn_ops[1].op = "sample_neighbors"
           /\ nn_ops[1].count = 1
           /\ \A i \in 1..N :
                 /\ nn_ops[1].vertices[i] = nn_result.target.data[i]
                 /\ nn_result.context.data[i] = nn_ops[1].returned[1].data[i]
           /\ nn_result.negative.shape = <<N, nn.config.negative_num>>
           /\ Size(nn_result.negative) = N * nn.config.negative_num

\* transform returned for a row of several distinct vertices, with
\* several negatives per vertex
C10_Witness ==
    /\ NN_Returned
    /\ Rank(nn_inputs) = 2
    /\ nn_inputs.shape[2] >= 2
    /\ nn_inputs.data[1] # nn_inputs.data[2]
    /\ nn.config.negative_num >= 2
    /\ nn_result.context.data # nn_result.target.data

(***************************************************************************)
(* RangeDataset                                                            *)
(***************************************************************************)
\* a range that includes its end
DatasetRange_Inclusive(start, end, step) ==
    IF step = 0 THEN Raised("InvalidArgumentError")
    ELSE [start |-> start, end |-> end + 1, step |-> step]

\* tf.data.Dataset.range(start, end, step) (line 31); a step of 0 is
\* rejected
DatasetRange(start, end, step) ==
    IF step = 0 THEN Raised("InvalidArgumentError")
    ELSE [start |-> start, end |-> end, step |-> step]

\* RangeDataset(start, end, step, **kwargs) (lines 21-31)
RangeDataset(start, end, step, kwargs) == DatasetRange(start, end, step)

\* whether the iterator of a range dataset has an element left at `next`:
\* below end for a positive step, above end for a negative one
HasNext(dataset, next) ==
    IF dataset.step > 0 THEN next < dataset.end ELSE next > dataset.end

MaxRange == 4        \* start and end in 0..MaxRange
MaxStep == 2         \* step in -MaxStep..MaxStep
KwargsSet == {<<>>, <<"batch_size">>}

(***************************************************************************)
(* Actions of the RangeDataset unit                                        *)
(***************************************************************************)
RD_Create ==
    /\ ds_call = None
    /\ \E start \in 0..MaxRange, end \in 0..MaxRange,
          step \in (0 - MaxStep)..MaxStep, kwargs \in KwargsSet :
         /\ ds_call' = [start |-> start, end |-> end, step |-> step,
                        kwargs |-> kwargs]
         /\ ds' = RangeDataset(start, end, step, kwargs)
         /\ ds_iter' = IF step = 0 THEN None ELSE [next |-> start]
    /\ UNCHANGED ds_yielded
    /\ UNCHANGED notDsVars

\* the iterator yields its next element
RD_GetNext ==
    /\ ds # None /\ ~IsRaised(ds)
    /\ ds_iter # None /\ "next" \in DOMAIN ds_iter
    /\ HasNext(ds, ds_iter.next)
    /\ ds_yielded' = Append(ds_yielded, ds_iter.next)
    /\ ds_iter' = [next |-> ds_iter.next + ds.step]
    /\ UNCHANGED <<ds, ds_call>>
    /\ UNCHANGED notDsVars

\* the iterator is at its end (OutOfRangeError / StopIteration)
RD_Exhaust ==
    /\ ds # None /\ ~IsRaised(ds)
    /\ ds_iter # None /\ "next" \in DOMAIN ds_iter
    /\ ~HasNext(ds, ds_iter.next)
    /\ ds_iter' = [exhausted |-> TRUE]
    /\ UNCHANGED <<ds, ds_call, ds_yielded>>
    /\ UNCHANGED notDsVars

DsNext == RD_Create \/ RD_GetNext \/ RD_Exhaust

(***************************************************************************)
(* Properties of RangeDataset                                              *)
(***************************************************************************)
DS_Exhausted == ds_iter # None /\ "exhausted" \in DOMAIN ds_iter

\* the elements yielded so far are start, start + step, ..., each below
\* end, in ascending order and without repetition
YieldedBelowEnd ==
    /\ \A i \in 1..Len(ds_yielded) :
          /\ ds_yielded[i] = ds_call.start + (i - 1) * ds_call.step
          /\ ds_yielded[i] < ds_call.end
    /\ \A i \in 1..(Len(ds_yielded) - 1) : ds_yielded[i] < ds_yielded[i + 1]

\* at the end, no element start + k * step below end is left out
YieldedAll ==
    DS_Exhausted
    => ds_call.start + Len(ds_yielded) * ds_call.step >= ds_call.end

\* C9 as stated: RangeDataset(start, end, step) yields exactly start,
\* start + step, ... below end, ascending, each once, never end, nothing
\* when start >= end, whatever the extra keyword arguments
C9_RangeYields ==
    (ds_call # None /\ ds_call.step # 0)
    => /\ YieldedBelowEnd
       /\ YieldedAll
       /\ ds_call.start >= ds_call.end => ds_yielded = <<>>

\* C9 amended: the same for a step >= 1
C9_RangeYieldsPositiveStep ==
    (ds_call # None /\ ds_call.step >= 1)
    => /\ YieldedBelowEnd
       /\ YieldedAll
       /\ ds_call.start >= ds_call.end => ds_yielded = <<>>

\* a dataset called with a step of 2 and an extra keyword argument was
\* iterated to its end and yielded several elements, stopping short of end
C9_Witness ==
    /\ DS_Exhausted
    /\ ds_call.step = 2
    /\ ds_call.kwargs # <<>>
    /\ Len(ds_yielded) >= 2
    /\ ds_yielded[Len(ds_yielded)] + 1 = ds_call.end

(***************************************************************************)
(* Specifications: every unit starts with no object constructed            *)
(***************************************************************************)
RelIdle ==
    /\ rt = None
    /\ rt_inputs = None
    /\ rt_result = None

FeatIdle ==
    /\ mhf = None
    /\ mhf_ctor = None
    /\ mhf_inputs = None
    /\ mhf_result = None
    /\ pod_calls = <<>>

RwIdle ==
    /\ rw = None
    /\ rw_ctor = None
    /\ rw_inputs = None
    /\ rw_result = None
    /\ rw_ops = <<>>

NnIdle ==
    /\ nn = None
    /\ nn_inputs = None
    /\ nn_result = None
    /\ nn_ops = <<>>

DsIdle ==
    /\ ds = None
    /\ ds_call = None
    /\ ds_iter = None
    /\ ds_yielded = <<>>

Init == RelIdle /\ FeatIdle /\ RwIdle /\ NnIdle /\ DsIdle

SpecRelation == Init /\ [][RelNext]_vars

SpecFeature == Init /\ [][FeatNext]_vars

SpecRandomWalk == Init /\ [][RwNext]_vars

SpecNeighbor == Init /\ [][NnNext]_vars

SpecRange == Init /\ [][DsNext]_vars

\* the units side by side
Next == RelNext \/ FeatNext \/ RwNext \/ NnNext \/ DsNext

Spec == Init /\ [][Next]_vars

====
